---------------------------- MODULE Spec2Model ----------------------------
(***************************************************************************)
(* Model of lksmith.c (Locksmith, a runtime lock-order verifier).          *)
(*                                                                         *)
(* The file holds one fully written wrapper, lksmith_pthread_mutex_init,   *)
(* its helpers lksmith_alloc_next_lock_id and lksmith_realloc_lock_data,   *)
(* the setter lksmith_set_error_cb, and five wrappers whose bodies are     *)
(* empty: destroy, trylock, lock, timedlock and unlock.  The model follows *)
(* the file statement by statement.  Where a statement has undefined       *)
(* behaviour the model branches over its outcomes:                         *)
(*   - BITFIELD_SET through a bitmap that has no byte for the bit (line    *)
(*     160, g_locks_used is still NULL): the process crashes, or the store *)
(*     lands in memory the bitmap does not own;                            *)
(*   - realloc of the address of a local variable (line 107): the process  *)
(*     crashes, or the allocator answers as for a fresh block (a block or  *)
(*     NULL);                                                              *)
(*   - pthread_mutex_unlock of a mutex the caller does not own (line 203   *)
(*     after line 191): the mutex is released whoever owns it, or the call *)
(*     has no effect;                                                      *)
(*   - the return value of a non-void function whose body is empty (lines  *)
(*     215-235): any value.                                                *)
(* Line 188 passes two arguments to __sync_val_compare_and_swap; the model *)
(* reads it as the three-argument call (&mutex->info.data, NULL, data).    *)
(***************************************************************************)
EXTENDS Integers, FiniteSets, Sequences, TLC

(***************************************************************************)
(* Bounds of the model.                                                    *)
(***************************************************************************)
NThreads == 2
NHandles == 3
NContended == 2
MaxRecs == 3
MaxInitCalls == 3
MaxAcquires == 3
MaxRepeats == 4
MaxChain == 5
MaxSinkInits == 2
MaxStrLen == 8

(***************************************************************************)
(* Program constants.                                                      *)
(***************************************************************************)
LKSMITH_BEFORE_MIN == 16
EBUSY == 16
ENOMEM == 12
EINVAL == 22
EIO == 5
ENAMETOOLONG == 36
\* lksmith.h is not among the sources: the version 1.0.
LKSMITH_API_VERSION == 65536
\* Major and minor numbers of the versions passed (the packed version stays
\* below 2^31).
VersionParts == {0, 1, 9, 10, 99, 100, 32767}

Threads == 1..NThreads
Handles == 1..NHandles
Contended == 1..NContended
Addrs == 1..MaxRecs
NULL == 0
NoThread == 0
NoValue == -1
NoCall == <<>>

\* The sink functions: 0 is lksmith_error_cb_to_stderr, the others are the
\* caller's.
lksmith_error_cb_to_stderr == 0
Callbacks == {0, 1}

LKSMITH_ERROR_OOM == "LKSMITH_ERROR_OOM"
LKSMITH_ERROR_CREATE_WHILE_IN_USE == "LKSMITH_ERROR_CREATE_WHILE_IN_USE"
LKSMITH_ERROR_LOCK_ORDER_VIOLATION == "LKSMITH_ERROR_LOCK_ORDER_VIOLATION"
LKSMITH_ERROR_RELEASE_NOT_HELD == "LKSMITH_ERROR_RELEASE_NOT_HELD"
ErrorCodes == {LKSMITH_ERROR_OOM, LKSMITH_ERROR_CREATE_WHILE_IN_USE,
               LKSMITH_ERROR_LOCK_ORDER_VIOLATION, LKSMITH_ERROR_RELEASE_NOT_HELD}

\* The values an indeterminate int return value is drawn from.
IndeterminateInts == {0, EBUSY}

VARIABLES
  g_internal_lock,   \* owner of g_internal_lock, NoThread when unlocked
  g_error_cb,        \* the installed sink
  g_locks,           \* the g_locks array (its allocated slots)
  g_locks_size,      \* g_locks_size
  g_locks_used,      \* indices of the bits that are set through g_locks_used
  g_locks_used_mem,  \* bytes allocated to g_locks_used (0: the pointer is NULL)
  heap,              \* the lksmith_lock_data blocks: Addrs -> record or FreeBlock
  mutex_data,        \* mutex->info.data of every handle
  crashed,           \* the process was killed by a fault
  pc,                \* where each thread is
  arg,               \* the call's argument: init's mutex, set_error_cb's fn
  next_lock_id,      \* init's local next_lock_id
  data,              \* init's local data
  ret,               \* init's local ret
  error_cb,          \* init's local error_cb
  rv,                \* what the thread's last lksmith_pthread_mutex_init call returned
  sunk,              \* the codes the sink received during the thread's current or last call
  nok,               \* caller's view: the init calls on a handle that returned 0
  held,              \* caller's view: the handles each thread locked and has not unlocked
  order,             \* caller's view: <<a, b>> when b was locked by a thread holding a
  nsucc,             \* caller's view: the lock, trylock and timedlock calls that returned 0
  try_failed,        \* caller's view: a trylock or timedlock call did not return 0
  stray_unlock,      \* caller's view: some thread called unlock on a lock it did not hold
  last_set,          \* caller's view: the fn of the lksmith_set_error_cb call that returned last
  last_alone,        \* caller's view: no other lksmith_set_error_cb call ran during that call
  fresh,             \* caller's view: the thread's call began with no lksmith_set_error_cb call
                     \* of another thread running, and none has begun since
  ncalls,            \* lksmith_pthread_mutex_init calls made so far (bounds the model)
  vts                \* the last lksmith_verion_to_str call: its arguments and what it left

vars == <<g_internal_lock, g_error_cb, g_locks, g_locks_size, g_locks_used,
          g_locks_used_mem, heap, mutex_data, crashed, pc, arg, next_lock_id,
          data, ret, error_cb, rv, sunk, nok, held, order, nsucc,
          try_failed, stray_unlock, last_set, last_alone, fresh, ncalls, vts>>

registry == <<g_locks, g_locks_size, g_locks_used, g_locks_used_mem>>
locals == <<arg, next_lock_id, data, ret, error_cb>>
results == <<rv, sunk>>
callers == <<nok, held, order, nsucc, try_failed, stray_unlock>>
sinkview == <<last_set, last_alone, fresh>>
pure == <<vts>>

FreeBlock == [nlock |-> NoValue, id |-> NoValue, before_size |-> NoValue, before |-> {}]

\* bitfield.h: bytes needed for n bits, and the test of a bit.
BITFIELD_MEM(n) == (n + 7) \div 8
BITFIELD_TEST(bf, i) == i \in bf

Init ==
  /\ g_internal_lock = NoThread
  /\ g_error_cb = lksmith_error_cb_to_stderr
  /\ g_locks = <<>>
  /\ g_locks_size = 0
  /\ g_locks_used = {}
  /\ g_locks_used_mem = 0
  /\ heap = [a \in Addrs |-> FreeBlock]
  /\ mutex_data = [h \in Handles |-> NULL]
  /\ crashed = FALSE
  /\ pc = [t \in Threads |-> "idle"]
  /\ arg = [t \in Threads |-> NoValue]
  /\ next_lock_id = [t \in Threads |-> NoValue]
  /\ data = [t \in Threads |-> NULL]
  /\ ret = [t \in Threads |-> "none"]
  /\ error_cb = [t \in Threads |-> NoValue]
  /\ rv = [t \in Threads |-> NoValue]
  /\ sunk = [t \in Threads |-> <<>>]
  /\ nok = [h \in Handles |-> 0]
  /\ held = [t \in Threads |-> {}]
  /\ order = {}
  /\ nsucc = 0
  /\ try_failed = FALSE
  /\ stray_unlock = FALSE
  /\ last_set = lksmith_error_cb_to_stderr
  /\ last_alone = TRUE
  /\ fresh = [t \in Threads |-> FALSE]
  /\ ncalls = 0
  /\ vts = NoCall

(***************************************************************************)
(* pthread_mutex_lock / pthread_mutex_unlock on g_internal_lock.           *)
(***************************************************************************)
\* The owner after thread t unlocks: a non-owner's unlock is undefined, it
\* releases the mutex anyway or does nothing.
UnlockOutcomes(t) ==
  IF g_internal_lock = t THEN {NoThread} ELSE {NoThread, g_internal_lock}

(***************************************************************************)
(* lksmith_verion_to_str, lines 65-78.  Text is a sequence of characters;  *)
(* str is what a buffer of str_len bytes holds before its terminator, or   *)
(* Untouched.                                                              *)
(***************************************************************************)
Untouched == <<"?">>

Digit(d) == <<"0", "1", "2", "3", "4", "5", "6", "7", "8", "9">>[d + 1]

RECURSIVE DecimalText(_)
\* %d of a non-negative int.
DecimalText(n) ==
  IF n < 10 THEN <<Digit(n)>> ELSE Append(DecimalText(n \div 10), Digit(n % 10))

\* "%d.%d" of ((v >> 16) & 0xffff) and (v & 0xffff).
VersionText(v) ==
  DecimalText((v \div 65536) % 65536) \o <<".">> \o DecimalText(v % 65536)

\* snprintf(str, size, ...) of text: what str holds, and the value returned.
snprintf(size, text) ==
  [str |-> IF size = 0 THEN Untouched
           ELSE SubSeq(text, 1, IF Len(text) < size THEN Len(text) ELSE size - 1),
   res |-> Len(text)]

\* Lines 69-77: ver is not read, the text is that of LKSMITH_API_VERSION.
lksmith_verion_to_str(ver, str_len) ==
  LET out == snprintf(str_len, VersionText(LKSMITH_API_VERSION))
  IN [ret |-> IF out.res < 0 THEN -EIO
              ELSE IF out.res >= str_len THEN -ENAMETOOLONG
              ELSE 0,
      str |-> out.str]

\* The versions and buffer sizes the callers pass.
Versions == {major * 65536 + minor : major \in VersionParts, minor \in VersionParts}
StrLens == 0..MaxStrLen

verion_to_str_call(ver, str_len) ==
  /\ ~crashed
  /\ vts' = [ver |-> ver, str_len |-> str_len,
             out |-> lksmith_verion_to_str(ver, str_len)]
  /\ UNCHANGED <<g_internal_lock, g_error_cb, registry, heap, mutex_data,
                 crashed, pc, locals, results, callers, sinkview, ncalls>>

\* Where a thread inside lksmith_set_error_cb can be.
SetPcs == {"set_lock", "set_write", "set_unlock", "set_return"}

(***************************************************************************)
(* lksmith_set_error_cb                                                    *)
(***************************************************************************)
set_error_cb_call(t, f) ==
  /\ ~crashed /\ pc[t] = "idle"
  /\ pc' = [pc EXCEPT ![t] = "set_lock"]
  /\ arg' = [arg EXCEPT ![t] = f]
  /\ rv' = [rv EXCEPT ![t] = NoValue]
  /\ sunk' = [sunk EXCEPT ![t] = <<>>]
  /\ UNCHANGED <<g_internal_lock, g_error_cb, registry, heap, mutex_data,
                 crashed, next_lock_id, data, ret, error_cb, callers, ncalls>>
  /\ fresh' = [u \in Threads |-> u = t /\ \A v \in Threads : pc[v] \notin SetPcs]
  /\ UNCHANGED <<last_set, last_alone>>
  /\ UNCHANGED pure

\* Line 82.
set_error_cb_lock(t) ==
  /\ ~crashed /\ pc[t] = "set_lock" /\ g_internal_lock = NoThread
  /\ g_internal_lock' = t
  /\ pc' = [pc EXCEPT ![t] = "set_write"]
  /\ UNCHANGED <<g_error_cb, registry, heap, mutex_data, crashed, locals,
                 results, callers, ncalls>>
  /\ UNCHANGED sinkview
  /\ UNCHANGED pure

\* Line 83.
set_error_cb_write(t) ==
  /\ ~crashed /\ pc[t] = "set_write"
  /\ g_error_cb' = arg[t]
  /\ pc' = [pc EXCEPT ![t] = "set_unlock"]
  /\ UNCHANGED <<g_internal_lock, registry, heap, mutex_data, crashed, locals,
                 results, callers, ncalls>>
  /\ UNCHANGED sinkview
  /\ UNCHANGED pure

\* Line 84.
set_error_cb_unlock(t) ==
  /\ ~crashed /\ pc[t] = "set_unlock"
  /\ \E o \in UnlockOutcomes(t) : g_internal_lock' = o
  /\ pc' = [pc EXCEPT ![t] = "set_return"]
  /\ UNCHANGED <<g_error_cb, registry, heap, mutex_data, crashed, locals,
                 results, callers, ncalls>>
  /\ UNCHANGED sinkview
  /\ UNCHANGED pure

\* Line 85: the call returns.
set_error_cb_return(t) ==
  /\ ~crashed /\ pc[t] = "set_return"
  /\ pc' = [pc EXCEPT ![t] = "idle"]
  /\ arg' = [arg EXCEPT ![t] = NoValue]
  /\ last_set' = arg[t]
  /\ last_alone' = fresh[t]
  /\ fresh' = [fresh EXCEPT ![t] = FALSE]
  /\ UNCHANGED <<g_internal_lock, g_error_cb, registry, heap, mutex_data,
                 crashed, next_lock_id, data, ret, error_cb, results, callers,
                 ncalls>>
  /\ UNCHANGED pure

(***************************************************************************)
(* lksmith_alloc_next_lock_id                                              *)
(***************************************************************************)
\* Lines 140-144: the index the scan loop stops at.
ScanStop ==
  LET clear == {i \in 0..(g_locks_size - 1) : ~BITFIELD_TEST(g_locks_used, i)}
  IN IF clear = {} THEN g_locks_size
     ELSE CHOOSE i \in clear : \A j \in clear : i <= j

AllocOutcome(id, used, mem, locks, size, crash) ==
  [id |-> id, used |-> used, mem |-> mem, locks |-> locks, size |-> size,
   crash |-> crash]

\* Line 160: BITFIELD_SET(g_locks_used, i) on a bitmap of mem bytes.  A bit the
\* bitmap has no byte for is a store outside the allocation: a crash, or the
\* store lands.
BitfieldSetOutcomes(i, mem, locks, size) ==
  IF i < 8 * mem
    THEN {AllocOutcome(i, g_locks_used \cup {i}, mem, locks, size, FALSE)}
    ELSE {AllocOutcome(i, g_locks_used \cup {i}, mem, locks, size, FALSE),
          AllocOutcome(i, g_locks_used, mem, locks, size, TRUE)}

\* The outcomes of one call: the id returned (NoValue: LKSMITH_ERROR_OOM) and
\* the registry it leaves.
lksmith_alloc_next_lock_id ==
  LET i == ScanStop
      grown_mem == IF BITFIELD_MEM(i) > BITFIELD_MEM(g_locks_size)
                     THEN BITFIELD_MEM(i) ELSE g_locks_used_mem
      grown_locks == [k \in 1..i |-> IF k <= Len(g_locks) THEN g_locks[k] ELSE NULL]
  IN IF i > g_locks_size
       THEN \* lines 146-158
            (IF BITFIELD_MEM(i) > BITFIELD_MEM(g_locks_size)
               THEN {AllocOutcome(NoValue, g_locks_used, g_locks_used_mem,
                                  g_locks, g_locks_size, FALSE)}
               ELSE {})
            \cup {AllocOutcome(NoValue, g_locks_used, grown_mem, g_locks,
                               g_locks_size, FALSE)}
            \cup BitfieldSetOutcomes(i, grown_mem, grown_locks, i)
       ELSE BitfieldSetOutcomes(i, g_locks_used_mem, g_locks, g_locks_size)

(***************************************************************************)
(* lksmith_realloc_lock_data, as init calls it: *data is NULL.             *)
(***************************************************************************)
FreeAddrs == {a \in Addrs : heap[a] = FreeBlock}

\* A new block that is not zeroed: what the memory held stays.
StaleLockData(before_size) ==
  [nlock |-> 1, id |-> 0, before_size |-> before_size, before |-> {0}]

\* Lines 111-113 and 121: the new block zeroed, then before_size stored.
ZeroedLockData(before_size) ==
  [nlock |-> 0, id |-> 0, before_size |-> before_size, before |-> {}]

\* The outcomes of lksmith_realloc_lock_data(&data, before_size) with data
\* NULL: [ret, data, crash].  Line 107 hands realloc the address of the
\* caller's local, which no allocator returned: a crash, or realloc answers as
\* for a new block (NULL when memory is out).
lksmith_realloc_lock_data(before_size) ==
  {[ret |-> LKSMITH_ERROR_OOM, data |-> NULL, crash |-> FALSE],
   [ret |-> "none", data |-> NULL, crash |-> TRUE]}
  \cup (IF FreeAddrs = {} THEN {}
        ELSE {[ret |-> "none",
               data |-> CHOOSE a \in FreeAddrs : \A b \in FreeAddrs : a <= b,
               crash |-> FALSE]})

(***************************************************************************)
(* lksmith_pthread_mutex_init                                              *)
(***************************************************************************)
init_call(t, h) ==
  /\ ~crashed /\ pc[t] = "idle" /\ ncalls < MaxInitCalls
  /\ pc' = [pc EXCEPT ![t] = "init_lock"]
  /\ arg' = [arg EXCEPT ![t] = h]
  /\ rv' = [rv EXCEPT ![t] = NoValue]
  /\ sunk' = [sunk EXCEPT ![t] = <<>>]
  /\ ncalls' = ncalls + 1
  /\ UNCHANGED <<g_internal_lock, g_error_cb, registry, heap, mutex_data,
                 crashed, next_lock_id, data, ret, error_cb, callers>>
  /\ fresh' = [fresh EXCEPT ![t] = \A u \in Threads : pc[u] \notin SetPcs]
  /\ UNCHANGED <<last_set, last_alone>>
  /\ UNCHANGED pure

\* Line 172.
init_lock(t) ==
  /\ ~crashed /\ pc[t] = "init_lock" /\ g_internal_lock = NoThread
  /\ g_internal_lock' = t
  /\ pc' = [pc EXCEPT ![t] = "init_alloc"]
  /\ UNCHANGED <<g_error_cb, registry, heap, mutex_data, crashed, locals,
                 results, callers, ncalls>>
  /\ UNCHANGED sinkview
  /\ UNCHANGED pure

\* Lines 173-179.
init_alloc(t) ==
  /\ ~crashed /\ pc[t] = "init_alloc"
  /\ \E o \in lksmith_alloc_next_lock_id :
       /\ g_locks_used' = o.used
       /\ g_locks_used_mem' = o.mem
       /\ g_locks' = o.locks
       /\ g_locks_size' = o.size
       /\ crashed' = o.crash
       /\ next_lock_id' = [next_lock_id EXCEPT ![t] = o.id]
       /\ IF o.id < 0
            THEN /\ ret' = [ret EXCEPT ![t] = LKSMITH_ERROR_OOM]
                 /\ pc' = [pc EXCEPT ![t] = "init_error"]
            ELSE /\ ret' = ret
                 /\ pc' = [pc EXCEPT ![t] = "init_realloc"]
  /\ UNCHANGED <<g_internal_lock, g_error_cb, heap, mutex_data, arg, data,
                 error_cb, results, callers, ncalls>>
  /\ UNCHANGED sinkview
  /\ UNCHANGED pure

\* Lines 183-184 and 193-194: snprintf with a %s conversion and no argument
\* for it.  The call reads a stray address: it faults, or it formats what it
\* finds and returns.
MissingArgFaults == BOOLEAN

\* Lines 180-181 and 187: the call, its test, and data->id = next_lock_id.
init_realloc(t) ==
  /\ ~crashed /\ pc[t] = "init_realloc"
  /\ \E o \in lksmith_realloc_lock_data(LKSMITH_BEFORE_MIN) :
       /\ IF o.ret # "none"
            THEN /\ ret' = [ret EXCEPT ![t] = o.ret]
                 /\ pc' = [pc EXCEPT ![t] = "init_oom"]
                 /\ crashed' = FALSE
                 /\ UNCHANGED <<heap, data>>
            ELSE IF o.crash
            THEN crashed' = TRUE /\ UNCHANGED <<heap, data, ret, pc>>
            ELSE /\ crashed' = FALSE
                 /\ heap' = [heap EXCEPT ![o.data] =
                       [ZeroedLockData(LKSMITH_BEFORE_MIN) EXCEPT
                          !.id = next_lock_id[t]]]
                 /\ data' = [data EXCEPT ![t] = o.data]
                 /\ pc' = [pc EXCEPT ![t] = "init_cas"]
                 /\ ret' = ret
  /\ UNCHANGED <<g_internal_lock, g_error_cb, registry, mutex_data, arg,
                 next_lock_id, error_cb, results, callers, ncalls>>
  /\ UNCHANGED sinkview
  /\ UNCHANGED pure

\* Lines 182-185: ret = LKSMITH_ERROR_OOM, the snprintf of lines 183-184,
\* goto error.  g_internal_lock is held.
init_oom(t) ==
  /\ ~crashed /\ pc[t] = "init_oom"
  /\ ret' = [ret EXCEPT ![t] = LKSMITH_ERROR_OOM]
  /\ \E f \in MissingArgFaults :
       /\ crashed' = f
       /\ pc' = [pc EXCEPT ![t] = IF f THEN @ ELSE "init_error"]
  /\ UNCHANGED <<g_internal_lock, g_error_cb, registry, heap, mutex_data, arg,
                 next_lock_id, data, error_cb, results, callers, ncalls>>
  /\ UNCHANGED sinkview
  /\ UNCHANGED pure

\* Line 188 reads __sync_val_compare_and_swap(&mutex->info.data, NULL): the
\* value to store is not in the source.  It is taken to be data, the record
\* line 187 has just finished, which is what attaching the record to the
\* handle asks for; the operator gives the value mutex->info.data is left
\* with.
CompareAndSwap(cur, new) == IF cur = NULL THEN new ELSE cur

\* Lines 188-189.
init_cas(t) ==
  /\ ~crashed /\ pc[t] = "init_cas"
  /\ mutex_data' = [mutex_data EXCEPT ![arg[t]] = CompareAndSwap(@, data[t])]
  /\ pc' = [pc EXCEPT ![t] = IF mutex_data[arg[t]] # NULL
                               THEN "init_busy" ELSE "init_ok"]
  /\ UNCHANGED <<g_internal_lock, g_error_cb, registry, heap, crashed, locals,
                 results, callers, ncalls>>
  /\ UNCHANGED sinkview
  /\ UNCHANGED pure

\* Lines 190-191: error_cb = g_error_cb; pthread_mutex_unlock.
init_busy(t) ==
  /\ ~crashed /\ pc[t] = "init_busy"
  /\ error_cb' = [error_cb EXCEPT ![t] = g_error_cb]
  /\ \E o \in UnlockOutcomes(t) : g_internal_lock' = o
  /\ pc' = [pc EXCEPT ![t] = "init_busy_msg"]
  /\ UNCHANGED <<g_error_cb, registry, heap, mutex_data, crashed, arg,
                 next_lock_id, data, ret, results, callers, ncalls>>
  /\ UNCHANGED sinkview
  /\ UNCHANGED pure

\* Lines 192-195: ret = LKSMITH_ERROR_CREATE_WHILE_IN_USE, the snprintf of
\* lines 193-194, goto error.  g_internal_lock has been released.
init_busy_msg(t) ==
  /\ ~crashed /\ pc[t] = "init_busy_msg"
  /\ ret' = [ret EXCEPT ![t] = LKSMITH_ERROR_CREATE_WHILE_IN_USE]
  /\ \E f \in MissingArgFaults :
       /\ crashed' = f
       /\ pc' = [pc EXCEPT ![t] = IF f THEN @ ELSE "init_error"]
  /\ UNCHANGED <<g_internal_lock, g_error_cb, registry, heap, mutex_data, arg,
                 next_lock_id, data, error_cb, results, callers, ncalls>>
  /\ UNCHANGED sinkview
  /\ UNCHANGED pure

\* Lines 197-198.
init_ok(t) ==
  /\ ~crashed /\ pc[t] = "init_ok"
  /\ \E o \in UnlockOutcomes(t) : g_internal_lock' = o
  /\ pc' = [pc EXCEPT ![t] = "idle"]
  /\ rv' = [rv EXCEPT ![t] = 0]
  /\ nok' = [nok EXCEPT ![arg[t]] = @ + 1]
  /\ arg' = [arg EXCEPT ![t] = NoValue]
  /\ data' = [data EXCEPT ![t] = NULL]
  /\ next_lock_id' = [next_lock_id EXCEPT ![t] = NoValue]
  /\ UNCHANGED <<g_error_cb, registry, heap, mutex_data, crashed, ret,
                 error_cb, sunk, held, order, nsucc, try_failed, stray_unlock,
                 ncalls>>
  /\ fresh' = [fresh EXCEPT ![t] = FALSE]
  /\ UNCHANGED <<last_set, last_alone>>
  /\ UNCHANGED pure

\* Line 201: free(data).
init_error(t) ==
  /\ ~crashed /\ pc[t] = "init_error"
  /\ heap' = IF data[t] = NULL THEN heap
             ELSE [heap EXCEPT ![data[t]] = FreeBlock]
  /\ pc' = [pc EXCEPT ![t] = "init_error_cb"]
  /\ UNCHANGED <<g_internal_lock, g_error_cb, registry, mutex_data, crashed,
                 locals, results, callers, ncalls, sinkview>>
  /\ UNCHANGED pure

\* An error path without line 202: the sink is the one read at line 190, if
\* any.
init_error_stale_cb(t) ==
  /\ ~crashed /\ pc[t] = "init_error_cb"
  /\ pc' = [pc EXCEPT ![t] = "init_error_unlock"]
  /\ UNCHANGED <<g_internal_lock, g_error_cb, registry, heap, mutex_data,
                 crashed, locals, results, callers, ncalls, sinkview>>
  /\ UNCHANGED pure

\* Line 202: error_cb = g_error_cb.
init_error_cb(t) ==
  /\ ~crashed /\ pc[t] = "init_error_cb"
  /\ error_cb' = [error_cb EXCEPT ![t] = g_error_cb]
  /\ pc' = [pc EXCEPT ![t] = "init_error_unlock"]
  /\ UNCHANGED <<g_internal_lock, g_error_cb, registry, heap, mutex_data,
                 crashed, arg, next_lock_id, data, ret, results, callers,
                 ncalls>>
  /\ UNCHANGED sinkview
  /\ UNCHANGED pure

\* An error path that calls the sink before it releases g_internal_lock.
init_error_keeps_lock(t) ==
  /\ ~crashed /\ pc[t] = "init_error_unlock"
  /\ pc' = [pc EXCEPT ![t] = "init_cb"]
  /\ UNCHANGED <<g_internal_lock, g_error_cb, registry, heap, mutex_data,
                 crashed, locals, results, callers, ncalls>>
  /\ UNCHANGED sinkview
  /\ UNCHANGED pure

\* Line 203; the thread goes on to line 204, the call of the sink.
init_error_unlock(t) ==
  /\ ~crashed /\ pc[t] = "init_error_unlock"
  /\ \E o \in UnlockOutcomes(t) : g_internal_lock' = o
  /\ pc' = [pc EXCEPT ![t] = "init_cb"]
  /\ UNCHANGED <<g_error_cb, registry, heap, mutex_data, crashed, locals,
                 results, callers, ncalls>>
  /\ UNCHANGED sinkview
  /\ UNCHANGED pure

\* The switch without its LKSMITH_ERROR_CREATE_WHILE_IN_USE case.
ReturnValueNoBusyCase(r) ==
  CASE r = LKSMITH_ERROR_OOM -> ENOMEM
    [] OTHER -> EINVAL

\* Lines 205-212.
ReturnValue(r) ==
  CASE r = LKSMITH_ERROR_CREATE_WHILE_IN_USE -> EBUSY
    [] r = LKSMITH_ERROR_OOM -> ENOMEM
    [] OTHER -> EINVAL

\* Lines 204-212: at pc init_cb the thread is inside error_cb(ret, buf); the
\* sink returns and the call returns what the switch selects.
init_cb(t) ==
  /\ ~crashed /\ pc[t] = "init_cb"
  /\ sunk' = [sunk EXCEPT ![t] = Append(@, ret[t])]
  /\ rv' = [rv EXCEPT ![t] = ReturnValue(ret[t])]
  /\ pc' = [pc EXCEPT ![t] = "idle"]
  /\ arg' = [arg EXCEPT ![t] = NoValue]
  /\ data' = [data EXCEPT ![t] = NULL]
  /\ next_lock_id' = [next_lock_id EXCEPT ![t] = NoValue]
  /\ ret' = [ret EXCEPT ![t] = "none"]
  /\ error_cb' = [error_cb EXCEPT ![t] = NoValue]
  /\ UNCHANGED <<g_internal_lock, g_error_cb, registry, heap, mutex_data,
                 crashed, callers, ncalls>>
  /\ fresh' = [fresh EXCEPT ![t] = FALSE]
  /\ UNCHANGED <<last_set, last_alone>>
  /\ UNCHANGED pure

(***************************************************************************)
(* lksmith_pthread_mutex_destroy, _trylock, _lock, _timedlock, _unlock:    *)
(* lines 215-235.  Each body is empty: the call touches neither the native *)
(* mutex nor any Locksmith data and never calls the sink, and the int it   *)
(* returns is indeterminate (r).  What the caller concludes from r is kept *)
(* in held, order and nsucc: a lock call that returned 0 is an acquisition *)
(* as far as the caller can tell.                                          *)
(***************************************************************************)
StubEntry(t) == ~crashed /\ pc[t] = "idle"

\* The body of a stub: nothing.
EmptyBody ==
  UNCHANGED <<g_internal_lock, g_error_cb, registry, heap, mutex_data, crashed,
              pc, locals, rv, sinkview, pure>>

\* The call made no use of the sink.
Returned(t) ==
  /\ sunk' = [sunk EXCEPT ![t] = <<>>]
  /\ ncalls' = ncalls

\* The caller's books after a lock call on h returned r.
CallerAcquire(t, h, r) ==
  IF r = 0
    THEN /\ held' = [held EXCEPT ![t] = @ \cup {h}]
         /\ order' = order \cup {<<a, h>> : a \in held[t] \ {h}}
         /\ nsucc' = nsucc + 1
    ELSE UNCHANGED <<held, order, nsucc>>

\* The caller's books after a trylock or timedlock returned r.
CallerFailed(r) == try_failed' = (try_failed \/ r # 0)

\* A lock that reports every acquisition whose edge is already on the books.
lock_reports_known_edge(t, h, r) ==
  /\ StubEntry(t)
  /\ EmptyBody
  /\ sunk' = [sunk EXCEPT ![t] =
       IF r = 0 /\ \E a \in held[t] : <<a, h>> \in order
         THEN <<LKSMITH_ERROR_LOCK_ORDER_VIOLATION>> ELSE <<>>]
  /\ ncalls' = ncalls
  /\ CallerAcquire(t, h, r)
  /\ UNCHANGED <<nok, try_failed, stray_unlock>>

\* Lines 223-225.
lksmith_pthread_mutex_lock(t, h, r) ==
  /\ StubEntry(t)
  /\ EmptyBody
  /\ Returned(t)
  /\ CallerAcquire(t, h, r)
  /\ UNCHANGED <<nok, try_failed, stray_unlock>>

\* A trylock that counts the acquisition before it looks at the result.
trylock_counts_first(t, h, r) ==
  /\ StubEntry(t)
  /\ heap' = IF mutex_data[h] = NULL THEN heap
             ELSE [heap EXCEPT ![mutex_data[h]].nlock = @ + 1]
  /\ UNCHANGED <<g_internal_lock, g_error_cb, registry, mutex_data, crashed,
                 pc, locals, rv>>
  /\ Returned(t)
  /\ CallerAcquire(t, h, r)
  /\ CallerFailed(r)
  /\ UNCHANGED <<nok, stray_unlock>>
  /\ UNCHANGED sinkview
  /\ UNCHANGED pure

\* Lines 219-221.
lksmith_pthread_mutex_trylock(t, h, r) ==
  /\ StubEntry(t)
  /\ EmptyBody
  /\ Returned(t)
  /\ CallerAcquire(t, h, r)
  /\ CallerFailed(r)
  /\ UNCHANGED <<nok, stray_unlock>>

\* Lines 227-231.
lksmith_pthread_mutex_timedlock(t, h, r) ==
  /\ StubEntry(t)
  /\ EmptyBody
  /\ Returned(t)
  /\ CallerAcquire(t, h, r)
  /\ CallerFailed(r)
  /\ UNCHANGED <<nok, stray_unlock>>

\* Lines 233-235.  The caller no longer holds h, if it did.
lksmith_pthread_mutex_unlock(t, h, r) ==
  /\ StubEntry(t)
  /\ EmptyBody
  /\ Returned(t)
  /\ held' = [held EXCEPT ![t] = @ \ {h}]
  /\ stray_unlock' = (stray_unlock \/ h \notin held[t])
  /\ UNCHANGED <<nok, order, nsucc, try_failed>>

\* Lines 215-217.
lksmith_pthread_mutex_destroy(t, h, r) ==
  /\ StubEntry(t)
  /\ EmptyBody
  /\ Returned(t)
  /\ UNCHANGED callers

(***************************************************************************)
(* The callers.  A thread calls a function when it is in none; the number  *)
(* of acquisitions the callers make is bounded.                            *)
(***************************************************************************)
Tracked(h) == mutex_data[h] # NULL

AllIdle == \A t \in Threads : pc[t] = "idle"

Budget(r, max) == r = 0 => nsucc < max

SetErrorCb ==
  \/ \E t \in Threads, f \in Callbacks : set_error_cb_call(t, f)
  \/ \E t \in Threads : set_error_cb_lock(t)
  \/ \E t \in Threads : set_error_cb_write(t)
  \/ \E t \in Threads : set_error_cb_unlock(t)
  \/ \E t \in Threads : set_error_cb_return(t)

InitSteps ==
  \/ \E t \in Threads : init_lock(t)
  \/ \E t \in Threads : init_alloc(t)
  \/ \E t \in Threads : init_realloc(t)
  \/ \E t \in Threads : init_cas(t)
  \/ \E t \in Threads : init_oom(t)
  \/ \E t \in Threads : init_busy(t)
  \/ \E t \in Threads : init_busy_msg(t)
  \/ \E t \in Threads : init_ok(t)
  \/ \E t \in Threads : init_error(t)
  \/ \E t \in Threads : init_error_cb(t)
  \/ \E t \in Threads : init_error_unlock(t)
  \/ \E t \in Threads : init_cb(t)

LockCalls ==
  \/ \E t \in Threads, h \in Handles, r \in IndeterminateInts :
       Budget(r, MaxChain) /\ lksmith_pthread_mutex_lock(t, h, r)
  \/ \E t \in Threads, h \in Handles, r \in IndeterminateInts :
       Budget(r, MaxChain) /\ lksmith_pthread_mutex_trylock(t, h, r)
  \/ \E t \in Threads, h \in Handles, r \in IndeterminateInts :
       Budget(r, MaxChain) /\ lksmith_pthread_mutex_timedlock(t, h, r)
  \/ \E t \in Threads, h \in Handles, r \in IndeterminateInts :
       lksmith_pthread_mutex_unlock(t, h, r)
  \/ \E t \in Threads, h \in Handles, r \in IndeterminateInts :
       lksmith_pthread_mutex_destroy(t, h, r)

\* The program: any thread may call any function at any time.
Next ==
  \/ \E ver \in Versions, str_len \in StrLens : verion_to_str_call(ver, str_len)
  \/ SetErrorCb
  \/ \E t \in Threads, h \in Handles : init_call(t, h)
  \/ InitSteps
  \/ LockCalls

Spec == Init /\ [][Next]_vars

(***************************************************************************)
(* The creation of tracked locks: the threads call                         *)
(* lksmith_pthread_mutex_init on the handles of Contended, concurrently.   *)
(***************************************************************************)
NextInit ==
  \/ \E t \in Threads, h \in Contended : init_call(t, h)
  \/ InitSteps

SpecInit == Init /\ [][NextInit]_vars

(***************************************************************************)
(* The sink replaced while locks are created: the threads call             *)
(* lksmith_set_error_cb and, on one handle, lksmith_pthread_mutex_init,    *)
(* concurrently.                                                           *)
(***************************************************************************)
sink_init(t) == ncalls < MaxSinkInits /\ init_call(t, 1)

NextSink ==
  \/ SetErrorCb
  \/ \E t \in Threads : sink_init(t)
  \/ InitSteps

SpecSink == Init /\ [][NextSink]_vars

(***************************************************************************)
(* The use of tracked locks: thread 1 creates the locks in n calls of      *)
(* lksmith_pthread_mutex_init, and once they are tracked the threads call  *)
(* the lock functions on them.  The lock functions read and write no       *)
(* Locksmith data, so their interleaving with a running init changes       *)
(* nothing they or init can see.                                           *)
(***************************************************************************)
setup_call(h, n) ==
  nsucc = 0 /\ ~try_failed /\ ~stray_unlock /\ ncalls < n /\ init_call(1, h)

\* Two locks, every lock function; no thread locks a lock it holds or unlocks
\* one it does not hold.
PairTracked == \A h \in Contended : Tracked(h)

PairEntry(t, h, r) ==
  AllIdle /\ PairTracked /\ h \notin held[t] /\ Budget(r, MaxAcquires)

use_lock(t, h, r) == PairEntry(t, h, r) /\ lksmith_pthread_mutex_lock(t, h, r)
use_trylock(t, h, r) == PairEntry(t, h, r) /\ lksmith_pthread_mutex_trylock(t, h, r)
use_timedlock(t, h, r) == PairEntry(t, h, r) /\ lksmith_pthread_mutex_timedlock(t, h, r)
use_unlock(t, h, r) ==
  AllIdle /\ PairTracked /\ h \in held[t] /\ lksmith_pthread_mutex_unlock(t, h, r)
use_destroy(t, h, r) == AllIdle /\ PairTracked /\ lksmith_pthread_mutex_destroy(t, h, r)

NextLock ==
  \/ \E h \in Contended : setup_call(h, NContended)
  \/ InitSteps
  \/ \E t \in Threads, h \in Contended, r \in IndeterminateInts : use_lock(t, h, r)
  \/ \E t \in Threads, h \in Contended, r \in IndeterminateInts : use_trylock(t, h, r)
  \/ \E t \in Threads, h \in Contended, r \in IndeterminateInts : use_timedlock(t, h, r)
  \/ \E t \in Threads, h \in Contended, r \in IndeterminateInts : use_unlock(t, h, r)
  \/ \E t \in Threads, h \in Contended, r \in IndeterminateInts : use_destroy(t, h, r)

SpecLock == Init /\ [][NextLock]_vars

\* Two locks taken again and again through lksmith_pthread_mutex_lock and
\* released through lksmith_pthread_mutex_unlock, by every thread.
again_lock(t, h, r) ==
  /\ AllIdle /\ PairTracked /\ h \notin held[t] /\ Budget(r, MaxRepeats)
  /\ lksmith_pthread_mutex_lock(t, h, r)

NextRepeat ==
  \/ \E h \in Contended : setup_call(h, NContended)
  \/ InitSteps
  \/ \E t \in Threads, h \in Contended, r \in IndeterminateInts : again_lock(t, h, r)
  \/ \E t \in Threads, h \in Contended, r \in IndeterminateInts : use_unlock(t, h, r)

SpecRepeat == Init /\ [][NextRepeat]_vars

\* Every handle, acquisitions through lksmith_pthread_mutex_lock only; no
\* thread locks a lock it holds.
AllTracked == \A h \in Handles : Tracked(h)

chain_lock(t, h, r) ==
  /\ AllIdle /\ AllTracked /\ h \notin held[t] /\ Budget(r, MaxChain)
  /\ lksmith_pthread_mutex_lock(t, h, r)

NextChain ==
  \/ \E h \in Handles : setup_call(h, NHandles)
  \/ InitSteps
  \/ \E t \in Threads, h \in Handles, r \in IndeterminateInts : chain_lock(t, h, r)

SpecChain == Init /\ [][NextChain]_vars

(***************************************************************************)
(* A single lock used by a single thread, in any sequence of calls.        *)
(***************************************************************************)
one_call(r) == AllIdle /\ Tracked(1) /\ Budget(r, MaxAcquires)

NextCount ==
  \/ setup_call(1, MaxInitCalls)
  \/ InitSteps
  \/ \E r \in IndeterminateInts : one_call(r) /\ lksmith_pthread_mutex_lock(1, 1, r)
  \/ \E r \in IndeterminateInts : one_call(r) /\ lksmith_pthread_mutex_trylock(1, 1, r)
  \/ \E r \in IndeterminateInts : one_call(r) /\ lksmith_pthread_mutex_timedlock(1, 1, r)
  \/ \E r \in IndeterminateInts : one_call(r) /\ lksmith_pthread_mutex_unlock(1, 1, r)
  \/ \E r \in IndeterminateInts : one_call(r) /\ lksmith_pthread_mutex_destroy(1, 1, r)

SpecCount == Init /\ [][NextCount]_vars

(***************************************************************************)
(* The version formatter called with any version and buffer size.          *)
(***************************************************************************)
NextVersion ==
  \E ver \in Versions, str_len \in StrLens : verion_to_str_call(ver, str_len)

SpecVersion == Init /\ [][NextVersion]_vars

(***************************************************************************)
(* The claims.                                                             *)
(***************************************************************************)
SinkCodes(t) == {sunk[t][i] : i \in 1..Len(sunk[t])}

\* C1: once b was locked by a thread holding a (edge a -> b), a thread that
\* holds b and acquires a through lksmith_pthread_mutex_lock has the sink
\* invoked exactly once, with LKSMITH_ERROR_LOCK_ORDER_VIOLATION.
C1_OrderViolationReported ==
  [][\A t \in Threads, a \in Handles, b \in Handles :
       (/\ a # b /\ Tracked(a) /\ Tracked(b)
        /\ <<a, b>> \in order
        /\ b \in held[t]
        /\ lksmith_pthread_mutex_lock(t, a, 0))
       => sunk'[t] = <<LKSMITH_ERROR_LOCK_ORDER_VIOLATION>>]_vars

\* Thread t holds a, the edges a -> b and b -> c are on the books and no edge
\* joins a and c.
C2_Case(t, a, b, c) ==
  /\ a # b /\ b # c /\ a # c
  /\ Tracked(a) /\ Tracked(b) /\ Tracked(c)
  /\ <<a, b>> \in order /\ <<b, c>> \in order
  /\ <<a, c>> \notin order /\ <<c, a>> \notin order
  /\ a \in held[t]

\* The step is thread t's lksmith_pthread_mutex_lock(c) returning 0 (the
\* caller's books are looked at first, they tell most steps apart).
C2_Acquires(t, c) ==
  /\ nsucc' = nsucc + 1
  /\ held'[t] = held[t] \cup {c}
  /\ lksmith_pthread_mutex_lock(t, c, 0)

\* C2: with a -> b and b -> c on the books and no edge between a
\* and c, an acquisition of c by a thread that holds a is reported as a
\* LKSMITH_ERROR_LOCK_ORDER_VIOLATION.
C2_TransitiveReported ==
  [][\A t \in Threads, c \in Handles :
       C2_Acquires(t, c)
       => \A a \in Handles, b \in Handles :
            C2_Case(t, a, b, c)
            => LKSMITH_ERROR_LOCK_ORDER_VIOLATION
                 \in {sunk'[t][i] : i \in 1..Len(sunk'[t])}]_vars

\* C3: as long as every pair of locks has been taken in one order only, the
\* sink has not been invoked with LKSMITH_ERROR_LOCK_ORDER_VIOLATION.
C3_NoFalsePositive ==
  (\A a \in Handles, b \in Handles : <<a, b>> \in order => <<b, a>> \notin order)
  => \A t \in Threads : LKSMITH_ERROR_LOCK_ORDER_VIOLATION \notin SinkCodes(t)

\* Both threads hold 1 and 2, each having taken 2 while holding 1: the pair
\* has been taken twice, by two threads, in the one order.
C3_Witness ==
  /\ Tracked(1) /\ Tracked(2)
  /\ order = {<<1, 2>>}
  /\ held[1] = {1, 2} /\ held[2] = {1, 2}
  /\ nsucc = 4
  /\ \A t \in Threads : sunk[t] = <<>>

InitOkOn(h) == {t \in Threads : pc[t] = "init_ok" /\ arg[t] = h}

C4_State ==
  /\ \A h \in Handles :
       /\ nok[h] + Cardinality(InitOkOn(h)) = (IF Tracked(h) THEN 1 ELSE 0)
       /\ Tracked(h) => heap[mutex_data[h]] # FreeBlock
  /\ \A t \in Threads :
       /\ pc[t] = "init_ok" => mutex_data[arg[t]] = data[t]
       /\ ret[t] = LKSMITH_ERROR_CREATE_WHILE_IN_USE
            => Tracked(arg[t]) /\ mutex_data[arg[t]] # data[t]
       /\ (pc[t] = "idle" /\ rv[t] = EBUSY)
            => sunk[t] = <<LKSMITH_ERROR_CREATE_WHILE_IN_USE>>

C4_Step ==
  /\ \A h \in Handles :
       Tracked(h) => /\ mutex_data'[h] = mutex_data[h]
                     /\ heap'[mutex_data[h]] = heap[mutex_data[h]]
  /\ \A t \in Threads :
       /\ (init_cas(t) /\ Tracked(arg[t])) => pc'[t] = "init_busy"
       /\ (init_cas(t) /\ ~Tracked(arg[t]))
            => pc'[t] = "init_ok" /\ mutex_data'[arg[t]] = data[t]
       /\ (init_cb(t) /\ ret[t] = LKSMITH_ERROR_CREATE_WHILE_IN_USE)
            => rv'[t] = EBUSY /\ sunk'[t] = <<LKSMITH_ERROR_CREATE_WHILE_IN_USE>>

\* A call that did not run out of memory has returned 0 or EBUSY.
C4_Returned ==
  \A t \in Threads :
    (pc[t] = "idle" /\ rv[t] # NoValue /\ sunk[t] # <<LKSMITH_ERROR_OOM>>)
      => rv[t] \in {0, EBUSY}

\* A call that found a record attached is not stopped before it returns.
C4_BusyCallGoesOn == \A t \in Threads : init_busy_msg(t) => ~crashed'

\* C4: a handle carries at most one record.  Of the init calls on a handle
\* exactly one attaches its record and returns 0 (it is the call whose record
\* the handle carries); every other call, unless memory ran out, takes the
\* CREATE_WHILE_IN_USE path, goes on to report it and returns EBUSY; and no
\* step replaces, changes or frees a record that is attached.
C4_OneRecordPerHandle ==
  /\ [](C4_State /\ C4_Returned)
  /\ [][C4_Step /\ C4_BusyCallGoesOn]_vars

\* C5: no two live lock records have the same id.
C5_UniqueIds ==
  \A h1 \in Handles, h2 \in Handles :
    (h1 # h2 /\ Tracked(h1) /\ Tracked(h2))
    => heap[mutex_data[h1]].id # heap[mutex_data[h2]].id

\* C6: when a failed init is about to report and return, the bit of the id it
\* allocated is clear again (unless a live lock has that id) and its record
\* has been freed (the block is free, or has been handed out again).
C6_NoLeakOnFailure ==
  \A t \in Threads :
    pc[t] = "init_cb" =>
      /\ \/ next_lock_id[t] \notin g_locks_used
         \/ \E h \in Handles : Tracked(h) /\ heap[mutex_data[h]].id = next_lock_id[t]
      /\ \/ data[t] = NULL
         \/ heap[data[t]] = FreeBlock
         \/ \E u \in Threads \ {t} : data[u] = data[t]
         \/ \E h \in Handles : mutex_data[h] = data[t]

\* C7: a trylock or timedlock on a tracked lock that does not return 0 leaves
\* every lock record (its before bits and its count), every handle and the
\* caller's hold sets, edges and acquisition count as they were.
C7_FailedTryChangesNothing ==
  [][\A t \in Threads, h \in Handles, r \in IndeterminateInts \ {0} :
       (Tracked(h) /\ (\/ lksmith_pthread_mutex_trylock(t, h, r)
                       \/ lksmith_pthread_mutex_timedlock(t, h, r)))
       => UNCHANGED <<heap, mutex_data, held, order, nsucc>>]_vars

\* A trylock or timedlock has failed while locks were held and edges known.
C7_Witness ==
  /\ try_failed
  /\ order # {}
  /\ \E t \in Threads : held[t] # {}

\* C8: an unlock of a tracked lock that the thread does not hold is reported
\* as LKSMITH_ERROR_RELEASE_NOT_HELD; an unlock of one it holds removes just
\* that lock from what it holds and reports nothing.
C8_ReleaseNotHeldReported ==
  [][\A t \in Threads, h \in Handles, r \in IndeterminateInts :
       (Tracked(h) /\ lksmith_pthread_mutex_unlock(t, h, r))
       => IF h \notin held[t]
            THEN sunk'[t] = <<LKSMITH_ERROR_RELEASE_NOT_HELD>>
            ELSE held'[t] = held[t] \ {h} /\ sunk'[t] = <<>>]_vars

\* C9: the acquisition count of the one tracked lock equals the number of
\* lock, trylock and timedlock calls that have returned 0 (a number that
\* never decreases).
C9_CountMatchesAcquisitions ==
  Tracked(1) => heap[mutex_data[1]].nlock = nsucc

\* C10: a thread that is inside the sink on behalf of init does not hold
\* g_internal_lock.
C10_SinkOutsideInternalLock ==
  \A t \in Threads : pc[t] = "init_cb" => g_internal_lock # t

\* A thread is inside the sink while another thread holds g_internal_lock.
C10_Witness ==
  \E t \in Threads, u \in Threads :
    /\ t # u
    /\ pc[t] = "init_cb"
    /\ g_internal_lock = u

\* C11, as claimed: a report raised by an init call that began when no
\* lksmith_set_error_cb call was running, and during which none began, goes
\* to the fn of the lksmith_set_error_cb call that returned last.
C11_LastReturnedWins ==
  \A t \in Threads :
    (pc[t] = "init_cb" /\ fresh[t]) => error_cb[t] = last_set

\* C11, amended: it goes there when no other lksmith_set_error_cb call ran
\* during the call that returned last (by default the sink is
\* lksmith_error_cb_to_stderr).
C11_LastSetterWins ==
  \A t \in Threads :
    (pc[t] = "init_cb" /\ fresh[t] /\ last_alone) => error_cb[t] = last_set

\* A report goes to the caller's sink, which a lksmith_set_error_cb call that
\* ran alone installed.
C11_Witness ==
  \E t \in Threads :
    /\ pc[t] = "init_cb" /\ fresh[t] /\ last_alone
    /\ last_set = 1 /\ error_cb[t] = 1

\* C12: a lksmith_verion_to_str call returns -ENAMETOOLONG exactly when the
\* major.minor text of its ver and the terminator take more than str_len
\* bytes, and otherwise returns 0 with str holding that text.
C12_FormatsVer ==
  vts # NoCall =>
    LET text == VersionText(vts.ver)
    IN IF Len(text) + 1 > vts.str_len
         THEN vts.out.ret = -ENAMETOOLONG
         ELSE vts.out.ret = 0 /\ vts.out.str = text

\* C13: the record of an init call that is about to return 0, and the record
\* of every tracked handle, has a before bitfield of LKSMITH_BEFORE_MIN bits,
\* all clear, and a count of 0; the former's id is the id the call allocated.
C13_NewRecordIsEmpty ==
  /\ \A h \in Handles :
       Tracked(h) =>
         LET rec == heap[mutex_data[h]]
         IN rec.before_size = LKSMITH_BEFORE_MIN /\ rec.before = {} /\ rec.nlock = 0
  /\ \A t \in Threads :
       pc[t] = "init_ok" =>
         heap[data[t]] = [nlock |-> 0, id |-> next_lock_id[t],
                          before_size |-> LKSMITH_BEFORE_MIN, before |-> {}]

\* Handle 1 is tracked, a second call on it has failed with EBUSY and freed
\* its record, and a third call, on handle 2, is about to return 0 with its
\* record in the block after the first.
C13_Witness ==
  \E t \in Threads, u \in Threads :
    /\ t # u /\ ncalls = 3
    /\ Tracked(1) /\ mutex_data[1] = 1
    /\ pc[u] = "idle" /\ rv[u] = EBUSY
    /\ pc[t] = "init_ok" /\ arg[t] = 2 /\ data[t] = 2

\* C14: when lksmith_alloc_next_lock_id has returned an id i to init (the
\* call is at line 180), 0 <= i < g_locks_size and bit i of g_locks_used is
\* set, within the bytes allocated to the bitmap.
C14_IdWithinRegistry ==
  \A t \in Threads :
    (~crashed /\ pc[t] = "init_realloc") =>
      /\ 0 <= next_lock_id[t] /\ next_lock_id[t] < g_locks_size
      /\ BITFIELD_TEST(g_locks_used, next_lock_id[t])
      /\ next_lock_id[t] < 8 * g_locks_used_mem

\* Slot i of g_locks points to a live record.
C15_SlotLive(i) ==
  /\ i < g_locks_size /\ i < Len(g_locks)
  /\ g_locks[i + 1] # NULL
  /\ heap[g_locks[i + 1]] # FreeBlock

\* C15: when no thread is inside a Locksmith function, bit i of g_locks_used
\* is set exactly when slot i of g_locks points to a live record, and the
\* record of every tracked handle is the one its id's slot points to.
C15_UsedIffLive ==
  (~crashed /\ AllIdle) =>
    /\ \A i \in 0..NHandles : BITFIELD_TEST(g_locks_used, i) <=> C15_SlotLive(i)
    /\ \A h \in Handles :
         Tracked(h) =>
           /\ C15_SlotLive(heap[mutex_data[h]].id)
           /\ g_locks[heap[mutex_data[h]].id + 1] = mutex_data[h]

\* Thread t is between its pthread_mutex_lock(&g_internal_lock) and the
\* pthread_mutex_unlock that answers it (line 191 on the
\* CREATE_WHILE_IN_USE path, else line 197, 203 or 84).
C16_InCriticalSection(t) ==
  \/ pc[t] \in {"init_alloc", "init_realloc", "init_oom", "init_cas",
                "init_busy", "init_ok", "set_write", "set_unlock"}
  \/ /\ pc[t] \in {"init_error", "init_error_cb", "init_error_unlock"}
     /\ ret[t] # LKSMITH_ERROR_CREATE_WHILE_IN_USE

\* The next statement of thread t reads or writes g_locks, g_locks_size,
\* g_locks_used or g_error_cb.
C16_AtAccess(t) ==
  pc[t] \in {"init_alloc", "init_busy", "init_error_cb", "set_write"}

\* C16: at most one thread is inside the g_internal_lock critical section,
\* and a thread about to read or write the registry or g_error_cb holds
\* g_internal_lock.
C16_MutualExclusion ==
  ~crashed =>
    /\ Cardinality({t \in Threads : C16_InCriticalSection(t)}) <= 1
    /\ \A t \in Threads : C16_AtAccess(t) => g_internal_lock = t

\* C17: a thread that executes a pthread_mutex_unlock(&g_internal_lock) of
\* init (line 191, 197 or 203) holds g_internal_lock, and a thread that
\* returns from init (line 198, or lines 205-212) does not.
C17_InitLockDiscipline ==
  [][\A t \in Threads :
       /\ (init_busy(t) \/ init_ok(t) \/ init_error_unlock(t)) => g_internal_lock = t
       /\ (init_ok(t) \/ init_cb(t)) => g_internal_lock' # t]_vars

\* C18: an init call that has returned a failure invoked the error sink
\* exactly once, with LKSMITH_ERROR_OOM when it returned ENOMEM and
\* LKSMITH_ERROR_CREATE_WHILE_IN_USE when it returned EBUSY, and an init call
\* that has returned 0 did not invoke the sink.
C18_ExactReport ==
  \A t \in Threads :
    (pc[t] = "idle" /\ rv[t] # NoValue) =>
      \/ rv[t] = 0 /\ sunk[t] = <<>>
      \/ rv[t] = ENOMEM /\ sunk[t] = <<LKSMITH_ERROR_OOM>>
      \/ rv[t] = EBUSY /\ sunk[t] = <<LKSMITH_ERROR_CREATE_WHILE_IN_USE>>

\* Both failures and a success have been returned.
C18_Witness ==
  /\ ncalls = 3
  /\ pc[1] = "idle" /\ rv[1] = ENOMEM /\ sunk[1] = <<LKSMITH_ERROR_OOM>>
  /\ pc[2] = "idle" /\ rv[2] = EBUSY
  /\ sunk[2] = <<LKSMITH_ERROR_CREATE_WHILE_IN_USE>>

=============================================================================
